---- MODULE Spec2Model ----
(***************************************************************************)
(* State-machine model of the LARFG client test driver                     *)
(* (clients/include/testing_larfg.hpp): testing_larfg, larfg_initData,     *)
(* larfg_getError and larfg_getPerfData.  The device routine               *)
(* rocsolver_larfg, the host reference cblas_larfg, rocblas_init,          *)
(* norm_error and the CHECK_/EXPECT_ macros are collaborators whose code   *)
(* is outside the two source files; they are modelled by their contract.   *)
(***************************************************************************)
EXTENDS Integers, Sequences, FiniteSets, TLC

\* ------------------------------------------------------------------ bounds
MaxN == 2          \* n ranges over -1 .. MaxN
MaxInc == 2        \* incx ranges over -1 .. MaxInc
MaxHot == 2        \* argus.iters ranges over 0 .. MaxHot
SizeBits == 16     \* width given to size_t in the model

SizeTMod == 2 ^ SizeBits

VARIABLES
    entry,               \* the entry point that is running
    n, inc, hot_calls,   \* locals of the entry point (n, inc, argus.iters)
    argus,               \* the mode flags of Arguments
    realloc_on_demand,   \* build option USE_ROCBLAS_REALLOC_ON_DEMAND
    kernel,              \* which device implementation is under test
    pc,                  \* position in testing_larfg and its callees
    iter,                \* loop counter of the cold and hot loops
    ha, hx, hxr, ht,     \* host buffers (<<>> before allocation)
    da, dx, dt,          \* device buffers (<<>> before allocation)
    rng,                 \* state of the host random generator
    max_error,           \* the Error Record
    status,              \* status returned by the last device invocation
    callMode,            \* "none", "exec" or "query": mode of that invocation
    callArgs,            \* arguments of that invocation
    expected,            \* status the harness expected of that invocation
    unchecked,           \* statuses returned by invocations nobody inspected
    failures,            \* test failures reported so far
    mem_size,            \* device memory size committed to the handle
    layer_mode,          \* logging configuration: <<layer mode, max levels>>
    devIn, hostIn,       \* inputs seen by the last device / host execution
    devTouched,          \* buffers the last device invocation accessed
    ended,               \* how the test case ended
    report,              \* columns handed to rocsolver_bench_output
    clock,               \* host wall clock, in time units
    busy_until,          \* clock value at which the device stream is idle
    xfer_start,          \* clock value at which the last transfer began
    start,               \* local start of larfg_getPerfData (line 174)
    gpu_time_used,       \* the Timing Record: device time
    cpu_time_used,       \* the Timing Record: host reference time
    log                  \* sequence of <<state, operation>> events

vars == <<entry, n, inc, hot_calls, argus, realloc_on_demand, kernel, pc,
          iter, ha, hx, hxr, ht, da, dx, dt, rng, max_error, status,
          expected, callMode, callArgs, unchecked, failures, mem_size, layer_mode, devIn,
          hostIn, devTouched, ended, report, clock, busy_until, xfer_start, start,
          gpu_time_used, cpu_time_used, log>>

params == <<entry, n, inc, hot_calls, argus, realloc_on_demand, kernel>>
hostBufs == <<ha, hx, hxr, ht>>
devBufs == <<da, dx, dt>>
timers == <<clock, busy_until, xfer_start, start, gpu_time_used, cpu_time_used>>
records == <<start, gpu_time_used, cpu_time_used>>

\* ------------------------------------------------------- generic helpers
Abs(v) == IF v < 0 THEN -v ELSE v

Max2(a, b) == IF a > b THEN a ELSE b

RECURSIVE MaxOver(_, _)
MaxOver(f, S) ==
    IF S = {} THEN 0
    ELSE LET k == CHOOSE k \in S : TRUE
         IN Max2(f[k], MaxOver(f, S \ {k}))

RECURSIVE SumOver(_, _)
SumOver(f, S) ==
    IF S = {} THEN 0
    ELSE LET k == CHOOSE k \in S : TRUE
         IN f[k] + SumOver(f, S \ {k})

Ev(st, op) == <<st, op>>

\* ------------------------------------------------------ sizes (194-203)
\* size_t size_x = n > 1 ? size_t(n - 1) : 1;
size_x == IF n > 1 THEN n - 1 ELSE 1

\* size_t stx = size_x * inc;  (unsigned: a negative inc wraps)
stx == (size_x * inc) % SizeTMod

CheckRequested == argus.unit_check \/ argus.norm_check

size_xr == IF CheckRequested THEN size_x ELSE 0

\* Faulty variant of stxr: the result buffer is sized for unit_check only.
stxr_unit_only == IF argus.unit_check THEN stx ELSE 0

stxr == IF CheckRequested THEN stx ELSE 0

\* Faulty variant of invalid_size: a zero increment is let through.
invalid_size_lax == n < 0 \/ inc < 0

\* Faulty variant of invalid_size: an empty problem is rejected as invalid.
invalid_size_strict == n <= 0 \/ inc < 1

\* bool invalid_size = (n < 0 || inc < 1);
invalid_size == n < 0 \/ inc < 1

\* ------------------------------------------------------ strided vectors
\* host_/device_strided_batch_vector<T>(n, inc, stride, 1): stride physical
\* cells, logical element i (0-based) in cell i*inc + 1; fresh cells hold 0.
NewVector(stride) == [k \in 1 .. stride |-> 0]

\* cells of the logical elements 0 .. cnt-1 at increment ic
Cells(cnt, ic) == {i * ic + 1 : i \in 0 .. cnt - 1}

\* ---------------------------------------------------------- rocblas_init
Seed == 2

NextRng(s) == (3 * s + 1) % 7

RandVal(s) == (s % 5) + 1

RECURSIVE RngAfter(_, _)
RngAfter(s, k) == IF k = 0 THEN s ELSE RngAfter(NextRng(s), k - 1)

\* rocblas_init<T>(v, seedReset): restarts the generator when seedReset and
\* draws one value per logical element; the cells in between are not written.
InitStart(s, seedReset) == IF seedReset THEN Seed ELSE s

rocblas_init(v, cnt, ic, s, seedReset) ==
    [k \in DOMAIN v |->
        IF k \in Cells(cnt, ic)
        THEN RandVal(RngAfter(InitStart(s, seedReset), (k - 1) \div ic))
        ELSE v[k]]

rocblas_init_rng(cnt, s, seedReset) == RngAfter(InitStart(s, seedReset), cnt)

\* ------------------------------------------------- cblas_larfg (host ref)
\* Stand-in for the elementary reflector: for n <= 1 or x = 0 nothing but
\* tau = 0 is written; otherwise alpha, the n-1 elements of x at increment
\* ic and tau are overwritten in place by values that depend on alpha and x.
cblas_larfg(nn, a, x, ic, t) ==
    LET cells == Cells(nn - 1, ic)
        xnorm == SumOver([k \in DOMAIN x |-> Abs(x[k])], cells)
        beta  == IF a[1] >= 0 THEN -(a[1] + xnorm) ELSE xnorm - a[1]
    IN IF nn <= 1 \/ xnorm = 0
       THEN [a |-> a, x |-> x, t |-> [k \in DOMAIN t |-> 0]]
       ELSE [a |-> [k \in DOMAIN a |-> beta],
             x |-> [k \in DOMAIN x |->
                      IF k \in cells THEN x[k] * (a[1] - beta) ELSE x[k]],
             t |-> [k \in DOMAIN t |-> beta - a[1]]]

\* ------------------------------------------------ norm_error and tolerance
\* norm_error('O', 1, cnt, ic, a, b): largest |a - b| over the cnt logical
\* elements at increment ic.
norm_error(cnt, ic, a, b) ==
    MaxOver([k \in Cells(cnt, ic) |-> Abs(a[k] - b[k])], Cells(cnt, ic))

\* machine epsilon of the element type, as the unit of the Error Record
Eps == 1

\* ROCSOLVER_TEST_CHECK(T, max_error, tol): max_error <= tol * eps
TestCheckPasses(err, tol) == err <= tol * Eps

\* ------------------------------------------- rocsolver_larfg (device)
Kernels == {"exact", "side", "x_small", "x_big"}

\* What the device implementation under test writes on a successful
\* execution: the reference result ("exact"), or a result that deviates in
\* alpha, tau and the cells outside the vector ("side"), or in the vector
\* elements by exactly the tolerance ("x_small") or by more ("x_big").
DeviceResult(nn, a, x, ic, t) ==
    LET r == cblas_larfg(nn, a, x, ic, t)
        cells == Cells(nn - 1, ic)
        dev == IF kernel = "x_small" THEN nn * Eps
               ELSE IF kernel = "x_big" THEN nn * Eps + 1 ELSE 0
    IN IF kernel = "side"
       THEN [a |-> [k \in DOMAIN a |-> r.a[k] + 1],
             x |-> [k \in DOMAIN x |->
                      IF k \in cells THEN r.x[k] ELSE r.x[k] + 1],
             t |-> [k \in DOMAIN t |-> r.t[k] + 1]]
       ELSE [a |-> r.a,
             x |-> [k \in DOMAIN x |->
                      IF k \in cells THEN r.x[k] + dev ELSE r.x[k]],
             t |-> r.t]

\* The arguments of an invocation: the sizes, and for the handle and each
\* buffer whether a non-null pointer is passed.
Args(h, nn, a, x, ic, t) ==
    [handle |-> h, n |-> nn, a |-> a, x |-> x, inc |-> ic, t |-> t]

NullBuffers(nn, ic) == Args(TRUE, nn, FALSE, FALSE, ic, FALSE)

RealBuffers(nn, ic) == Args(TRUE, nn, TRUE, TRUE, ic, TRUE)

\* The status the routine's contract prescribes for an invocation.
DevContract(args, query) ==
    IF ~args.handle THEN "invalid_handle"
    ELSE IF args.n < 0 \/ args.inc < 1 THEN "invalid_size"
    ELSE IF query THEN "size_unchanged"
    ELSE IF args.n = 0 THEN "success"
    ELSE IF ~args.a \/ ~args.x \/ ~args.t THEN "invalid_pointer"
    ELSE "success"

\* The routine under test may also fail.
DevStatuses(args, query) == {DevContract(args, query), "internal_error"}

\* scratch memory the routine asks for in a size query
WorkSize(nn) == nn + 1

\* ------------------------------------------------------ status checks
\* EXPECT_ROCBLAS_STATUS(status, expect): a mismatch is a reported failure.
EXPECT_ROCBLAS_STATUS(s, e) ==
    IF s # e THEN failures \cup {"status_mismatch"} ELSE failures

\* CHECK_ROCBLAS_ERROR(status): anything but success is fatal to the case.
CHECK_ROCBLAS_ERROR(s) == s = "success"

\* CHECK_ALLOC_QUERY(status): a size query must answer with a size status.
CHECK_ALLOC_QUERY(s) == s \in {"size_unchanged", "size_increased"}

\* ------------------------------------------------------------- time
\* durations of the operations that take time, in clock units
GenTime == 1
MirrorTime == 2
DevTime == 3
HostTime == 5

\* get_time_us_no_sync(): the host clock as it stands
get_time_us_no_sync(c, busy) == c

\* get_time_us_sync(stream): waits for the stream to drain, then reads the
\* host clock
get_time_us_sync(c, busy) == Max2(c, busy)

\* Faulty variant of transfer_start: the copy does not wait for the stream.
transfer_start_unordered(c, busy) == c

\* a blocking host/device transfer is ordered after the work already
\* queued on the stream: it begins once the device is idle
transfer_start(c, busy) == Max2(c, busy)

\* and returns when the copy is complete
transfer_done(c, busy) == transfer_start(c, busy) + MirrorTime

\* Faulty variant of HotStop: the stop time is read without waiting for
\* the device.
HotStop_no_sync(c, busy) == get_time_us_no_sync(c, busy)

\* line 176: the stop time of one hot call
HotStop(c, busy) == get_time_us_sync(c, busy)

\* 0.0 / 0 of line 178: not a number
NaN == 0 - 1

\* ------------------------------------------------------------- Init
\* argus.profile: profiling off (0) or on (a positive number of levels)
ProfileLevels == {0, 1}

Flags == [unit_check : BOOLEAN, norm_check : BOOLEAN, timing : BOOLEAN,
          mem_query : BOOLEAN, perf : BOOLEAN,
          profile : ProfileLevels, profile_kernels : BOOLEAN]

\* testing_larfg(argus): any sizes and flags the client can be given
InitTesting ==
    /\ entry = "testing_larfg"
    /\ n \in -1 .. MaxN
    /\ inc \in -1 .. MaxInc
    /\ hot_calls \in 0 .. MaxHot
    /\ argus \in Flags
    /\ realloc_on_demand \in BOOLEAN
    /\ kernel \in Kernels
    /\ pc = "start"

\* testing_larfg_bad_arg(): the safe arguments n = 2, inc = 1 (lines 45-48)
InitBadArg ==
    /\ entry = "testing_larfg_bad_arg"
    /\ n = 2
    /\ inc = 1
    /\ hot_calls = 0
    /\ argus = [unit_check |-> FALSE, norm_check |-> FALSE, timing |-> FALSE,
                mem_query |-> FALSE, perf |-> FALSE, profile |-> 0,
                profile_kernels |-> FALSE]
    /\ realloc_on_demand = TRUE
    /\ kernel \in Kernels
    /\ pc = "ba_alloc"

Init ==
    /\ InitTesting \/ InitBadArg
    /\ iter = 0
    /\ ha = <<>> /\ hx = <<>> /\ hxr = <<>> /\ ht = <<>>
    /\ da = <<>> /\ dx = <<>> /\ dt = <<>>
    /\ rng = Seed
    /\ max_error = 0
    /\ status = "none" /\ callMode = "none" /\ expected = "none"
    /\ callArgs = <<>>
    /\ unchecked = {}
    /\ failures = {}
    /\ mem_size = 0
    /\ layer_mode = <<"none", 0>>
    /\ devIn = <<>> /\ hostIn = <<>>
    /\ devTouched = {}
    /\ ended = "running"
    /\ report = {}
    /\ clock = 0 /\ busy_until = 0 /\ xfer_start = 0 /\ start = 0
    /\ gpu_time_used = 0 /\ cpu_time_used = 0
    /\ log = <<>>

\* ------------------------------------------- device invocation pieces
\* an invocation that computes nothing: a size query, or arguments for
\* which the contract prescribes an early return
InvokeNull(args, s, mode, e) ==
    /\ status' = s /\ callMode' = mode /\ expected' = e
    /\ callArgs' = args
    /\ devTouched' = {}
    /\ UNCHANGED <<devBufs, devIn>>
    /\ UNCHANGED busy_until

\* rocsolver_larfg(handle, n, da.data(), dx.data(), inc, dt.data())
InvokeOnBuffers(s, e) ==
    LET run == s = "success" /\ n >= 1
        r == DeviceResult(n, da, dx, inc, dt)
    IN /\ status' = s /\ callMode' = "exec" /\ expected' = e
       /\ callArgs' = RealBuffers(n, inc)
       /\ devIn' = <<da, dx>>
       /\ da' = IF run THEN r.a ELSE da
       /\ dx' = IF run THEN r.x ELSE dx
       /\ dt' = IF run THEN r.t ELSE dt
       /\ devTouched' = IF run THEN {"da", "dx", "dt"} ELSE {}
       /\ busy_until' = IF n >= 1 THEN Max2(clock, busy_until) + DevTime
                                    ELSE busy_until

Abort == pc' = "done" /\ ended' = "aborted"

\* ------------------------------------------- testing_larfg, 205-216
CheckInvalidSize ==
    /\ pc = "start"
    /\ IF invalid_size
       THEN \E s \in DevStatuses(NullBuffers(n, inc), FALSE) :
              /\ InvokeNull(NullBuffers(n, inc), s, "exec", "invalid_size")
              /\ failures' = EXPECT_ROCBLAS_STATUS(s, "invalid_size")
              /\ log' = log \o <<Ev("SizeValidation", "check"),
                                 Ev("SizeValidation", "device_call")>>
                            \o (IF argus.timing
                                THEN <<Ev("SizeValidation", "inform_invalid_size")>>
                                ELSE <<>>)
              /\ pc' = "done" /\ ended' = "invalid_size"
       ELSE /\ log' = Append(log, Ev("SizeValidation", "check"))
            /\ pc' = "mem_query"
            /\ UNCHANGED <<status, callMode, callArgs, expected, devTouched, devBufs,
                           devIn, failures, ended, busy_until>>
    /\ UNCHANGED <<params, iter, hostBufs, rng, max_error, unchecked,
                   mem_size, layer_mode, hostIn, report>>
    /\ UNCHANGED <<clock, xfer_start, records>>

\* ------------------------------------------- testing_larfg, 218-233
\* Faulty variant of query_needed: the size is queried on request only.
query_needed_on_request == argus.mem_query

\* line 219: if(argus.mem_query || !USE_ROCBLAS_REALLOC_ON_DEMAND)
query_needed == argus.mem_query \/ ~realloc_on_demand

MemoryQuery ==
    /\ pc = "mem_query"
    /\ IF query_needed
       THEN \E s \in DevStatuses(NullBuffers(n, inc), TRUE) :
              /\ InvokeNull(NullBuffers(n, inc), s, "query", "size_unchanged")
              /\ IF ~CHECK_ALLOC_QUERY(s)
                 THEN /\ log' = log \o <<Ev("MemoryQuery", "start_query"),
                                         Ev("MemoryQuery", "device_query")>>
                      /\ Abort
                      /\ UNCHANGED mem_size
                 ELSE IF argus.mem_query
                 THEN /\ log' = log \o <<Ev("MemoryQuery", "start_query"),
                                         Ev("MemoryQuery", "device_query"),
                                         Ev("MemoryQuery", "stop_query"),
                                         Ev("MemoryQuery", "inform_mem_query")>>
                      /\ pc' = "done" /\ ended' = "mem_query"
                      /\ UNCHANGED mem_size
                 ELSE /\ log' = log \o <<Ev("MemoryQuery", "start_query"),
                                         Ev("MemoryQuery", "device_query"),
                                         Ev("MemoryQuery", "stop_query"),
                                         Ev("MemoryQuery", "set_memory_size")>>
                      /\ mem_size' = WorkSize(n)
                      /\ pc' = "alloc"
                      /\ UNCHANGED ended
       ELSE /\ pc' = "alloc"
            /\ UNCHANGED <<status, callMode, callArgs, expected, devTouched, devBufs,
                           devIn, mem_size, ended, log, busy_until>>
    /\ UNCHANGED <<params, iter, hostBufs, rng, max_error, unchecked,
                   failures, layer_mode, hostIn, report>>
    /\ UNCHANGED <<clock, xfer_start, records>>

\* ------------------------------------------- testing_larfg, 235-246
MemoryAllocations ==
    /\ pc = "alloc"
    /\ hx' = NewVector(stx) /\ hxr' = NewVector(stxr)
    /\ ha' = NewVector(1) /\ ht' = NewVector(1)
    /\ dx' = NewVector(stx) /\ da' = NewVector(1) /\ dt' = NewVector(1)
    /\ log' = Append(log, Ev("Setup", "allocate"))
    /\ \E ok \in BOOLEAN :          \* CHECK_HIP_ERROR(memcheck())
          IF ok THEN pc' = "quick_return" /\ UNCHANGED ended ELSE Abort
    /\ UNCHANGED <<params, iter, rng, max_error, status, callMode, callArgs, expected,
                   unchecked, failures, mem_size, layer_mode, devIn, hostIn,
                   devTouched, report>>
    /\ UNCHANGED timers

\* ------------------------------------------- testing_larfg, 260-267
\* Faulty variant of AfterGetError: the performance data is never collected.
AfterGetError_no_perf == "test_check"

AfterGetError == IF argus.timing THEN "pd_host" ELSE "test_check"

\* Faulty variant of AfterQuickReturn: the computations are always checked.
AfterQuickReturn_always == "ge_init"

AfterQuickReturn == IF CheckRequested THEN "ge_init" ELSE AfterGetError

\* ------------------------------------------- testing_larfg, 248-258
\* Faulty variant of quick_return: the empty problem is not recognised.
quick_return_never == n < 0

quick_return == n = 0

\* Faulty variant of CheckQuickReturn: the quick return is reported to the
\* sink whether or not timing is set.
CheckQuickReturn_informs ==
    /\ pc = "quick_return"
    /\ IF quick_return
       THEN \E s \in DevStatuses(RealBuffers(n, inc), FALSE) :
              /\ InvokeOnBuffers(s, "success")
              /\ failures' = EXPECT_ROCBLAS_STATUS(s, "success")
              /\ log' = log \o <<Ev("QuickReturn", "check"),
                                 Ev("QuickReturn", "device_call"),
                                 Ev("QuickReturn", "inform_quick_return")>>
              /\ pc' = "done" /\ ended' = "quick_return"
       ELSE /\ log' = Append(log, Ev("QuickReturn", "check"))
            /\ pc' = AfterQuickReturn
            /\ UNCHANGED <<status, callMode, callArgs, expected, devTouched, devBufs,
                           devIn, failures, ended, busy_until>>
    /\ UNCHANGED <<params, iter, hostBufs, rng, max_error, unchecked,
                   mem_size, layer_mode, hostIn, report>>
    /\ UNCHANGED <<clock, xfer_start, records>>

CheckQuickReturn ==
    /\ pc = "quick_return"
    /\ IF quick_return
       THEN \E s \in DevStatuses(RealBuffers(n, inc), FALSE) :
              /\ InvokeOnBuffers(s, "success")
              /\ failures' = EXPECT_ROCBLAS_STATUS(s, "success")
              /\ log' = log \o <<Ev("QuickReturn", "check"),
                                 Ev("QuickReturn", "device_call")>>
                            \o (IF argus.timing
                                THEN <<Ev("QuickReturn", "inform_quick_return")>>
                                ELSE <<>>)
              /\ pc' = "done" /\ ended' = "quick_return"
       ELSE /\ log' = Append(log, Ev("QuickReturn", "check"))
            /\ pc' = AfterQuickReturn
            /\ UNCHANGED <<status, callMode, callArgs, expected, devTouched, devBufs,
                           devIn, failures, ended, busy_until>>
    /\ UNCHANGED <<params, iter, hostBufs, rng, max_error, unchecked,
                   mem_size, layer_mode, hostIn, report>>
    /\ UNCHANGED <<clock, xfer_start, records>>

\* Faulty variant of larfg_initData: the transfer to the device is done
\* before the host buffers are refilled.
larfg_initData_swapped(CPU, GPU, st, next) ==
    LET ha1  == IF CPU THEN rocblas_init(ha, 1, 1, rng, TRUE) ELSE ha
        rng1 == IF CPU THEN rocblas_init_rng(1, rng, TRUE) ELSE rng
        hx1  == IF CPU THEN rocblas_init(hx, size_x, inc, rng1, TRUE) ELSE hx
        rng2 == IF CPU THEN rocblas_init_rng(size_x, rng1, TRUE) ELSE rng1
    IN /\ ha' = ha1 /\ hx' = hx1 /\ rng' = rng2
       /\ log' = log \o (IF GPU THEN <<Ev(st, "mirror")>> ELSE <<>>)
                     \o (IF CPU THEN <<Ev(st, "generate")>> ELSE <<>>)
       /\ \E ok \in (IF GPU THEN BOOLEAN ELSE {TRUE}) :
             IF ok
             THEN /\ da' = IF GPU THEN ha ELSE da
                  /\ dx' = IF GPU THEN hx ELSE dx
                  /\ pc' = next
                  /\ UNCHANGED ended
             ELSE /\ UNCHANGED <<da, dx>>
                  /\ Abort
       /\ UNCHANGED <<hxr, ht, dt>>
       /\ LET c1 == IF CPU THEN clock + GenTime ELSE clock
          IN /\ clock' = IF GPU THEN transfer_done(c1, busy_until) ELSE c1
             /\ xfer_start' = IF GPU THEN transfer_start(c1, busy_until)
                              ELSE xfer_start
       /\ UNCHANGED <<busy_until, records>>

\* Faulty variant of larfg_initData: alpha is not transferred to the device.
larfg_initData_skip_da(CPU, GPU, st, next) ==
    LET ha1  == IF CPU THEN rocblas_init(ha, 1, 1, rng, TRUE) ELSE ha
        rng1 == IF CPU THEN rocblas_init_rng(1, rng, TRUE) ELSE rng
        hx1  == IF CPU THEN rocblas_init(hx, size_x, inc, rng1, TRUE) ELSE hx
        rng2 == IF CPU THEN rocblas_init_rng(size_x, rng1, TRUE) ELSE rng1
    IN /\ ha' = ha1 /\ hx' = hx1 /\ rng' = rng2
       /\ log' = log \o (IF CPU THEN <<Ev(st, "generate")>> ELSE <<>>)
                     \o (IF GPU THEN <<Ev(st, "mirror")>> ELSE <<>>)
       /\ \E ok \in (IF GPU THEN BOOLEAN ELSE {TRUE}) :
             IF ok
             THEN /\ dx' = IF GPU THEN hx1 ELSE dx
                  /\ pc' = next
                  /\ UNCHANGED <<da, ended>>
             ELSE /\ UNCHANGED <<da, dx>>
                  /\ Abort
       /\ UNCHANGED <<hxr, ht, dt>>
       /\ LET c1 == IF CPU THEN clock + GenTime ELSE clock
          IN /\ clock' = IF GPU THEN transfer_done(c1, busy_until) ELSE c1
             /\ xfer_start' = IF GPU THEN transfer_start(c1, busy_until)
                              ELSE xfer_start
       /\ UNCHANGED <<busy_until, records>>

\* Faulty variant of larfg_initData: the host buffers are transferred to the
\* device whatever the GPU flag says.
larfg_initData_mirror_always(CPU, GPU, st, next) ==
    LET ha1  == IF CPU THEN rocblas_init(ha, 1, 1, rng, TRUE) ELSE ha
        rng1 == IF CPU THEN rocblas_init_rng(1, rng, TRUE) ELSE rng
        hx1  == IF CPU THEN rocblas_init(hx, size_x, inc, rng1, TRUE) ELSE hx
        rng2 == IF CPU THEN rocblas_init_rng(size_x, rng1, TRUE) ELSE rng1
    IN /\ ha' = ha1 /\ hx' = hx1 /\ rng' = rng2
       /\ log' = log \o (IF CPU THEN <<Ev(st, "generate")>> ELSE <<>>)
                     \o (IF GPU THEN <<Ev(st, "mirror")>> ELSE <<>>)
       /\ \E ok \in (IF GPU THEN BOOLEAN ELSE {TRUE}) :
             IF ok
             THEN /\ da' = ha1
                  /\ dx' = hx1
                  /\ pc' = next
                  /\ UNCHANGED ended
             ELSE /\ UNCHANGED <<da, dx>>
                  /\ Abort
       /\ UNCHANGED <<hxr, ht, dt>>
       /\ LET c1 == IF CPU THEN clock + GenTime ELSE clock
          IN /\ clock' = IF GPU THEN transfer_done(c1, busy_until) ELSE c1
             /\ xfer_start' = IF GPU THEN transfer_start(c1, busy_until)
                              ELSE xfer_start
       /\ UNCHANGED <<busy_until, records>>

\* Faulty variant of larfg_initData: the generator is not re-seeded before
\* the host buffers are refilled.
larfg_initData_no_reseed(CPU, GPU, st, next) ==
    LET ha1  == IF CPU THEN rocblas_init(ha, 1, 1, rng, FALSE) ELSE ha
        rng1 == IF CPU THEN rocblas_init_rng(1, rng, FALSE) ELSE rng
        hx1  == IF CPU THEN rocblas_init(hx, size_x, inc, rng1, FALSE) ELSE hx
        rng2 == IF CPU THEN rocblas_init_rng(size_x, rng1, FALSE) ELSE rng1
    IN /\ ha' = ha1 /\ hx' = hx1 /\ rng' = rng2
       /\ log' = log \o (IF CPU THEN <<Ev(st, "generate")>> ELSE <<>>)
                     \o (IF GPU THEN <<Ev(st, "mirror")>> ELSE <<>>)
       /\ \E ok \in (IF GPU THEN BOOLEAN ELSE {TRUE}) :
             IF ok
             THEN /\ da' = IF GPU THEN ha1 ELSE da
                  /\ dx' = IF GPU THEN hx1 ELSE dx
                  /\ pc' = next
                  /\ UNCHANGED ended
             ELSE /\ UNCHANGED <<da, dx>>
                  /\ Abort
       /\ UNCHANGED <<hxr, ht, dt>>
       /\ LET c1 == IF CPU THEN clock + GenTime ELSE clock
          IN /\ clock' = IF GPU THEN transfer_done(c1, busy_until) ELSE c1
             /\ xfer_start' = IF GPU THEN transfer_start(c1, busy_until)
                              ELSE xfer_start
       /\ UNCHANGED <<busy_until, records>>

\* ------------------------------------------- larfg_initData, 62-85
\* larfg_initData<CPU, GPU>, called in orchestrator state st, continuing at
\* next: if(CPU) the host buffers ha and hx are refilled, then if(GPU) they
\* are transferred to da and dx (CHECK_HIP_ERROR: a failed transfer is fatal).
larfg_initData(CPU, GPU, st, next) ==
    LET ha1  == IF CPU THEN rocblas_init(ha, 1, 1, rng, TRUE) ELSE ha
        rng1 == IF CPU THEN rocblas_init_rng(1, rng, TRUE) ELSE rng
        hx1  == IF CPU THEN rocblas_init(hx, size_x, inc, rng1, TRUE) ELSE hx
        rng2 == IF CPU THEN rocblas_init_rng(size_x, rng1, TRUE) ELSE rng1
    IN /\ ha' = ha1 /\ hx' = hx1 /\ rng' = rng2
       /\ log' = log \o (IF CPU THEN <<Ev(st, "generate")>> ELSE <<>>)
                     \o (IF GPU THEN <<Ev(st, "mirror")>> ELSE <<>>)
       /\ \E ok \in (IF GPU THEN BOOLEAN ELSE {TRUE}) :
             IF ok
             THEN /\ da' = IF GPU THEN ha1 ELSE da
                  /\ dx' = IF GPU THEN hx1 ELSE dx
                  /\ pc' = next
                  /\ UNCHANGED ended
             ELSE /\ UNCHANGED <<da, dx>>
                  /\ Abort
       /\ UNCHANGED <<hxr, ht, dt>>
       /\ LET c1 == IF CPU THEN clock + GenTime ELSE clock
          IN /\ clock' = IF GPU THEN transfer_done(c1, busy_until) ELSE c1
             /\ xfer_start' = IF GPU THEN transfer_start(c1, busy_until)
                              ELSE xfer_start
       /\ UNCHANGED <<busy_until, records>>

\* ------------------------------------------- larfg_getError, 87-116
\* line 101
GE_InitData ==
    /\ pc = "ge_init"
    /\ larfg_initData(TRUE, TRUE, "Correctness", "ge_dev")
    /\ UNCHANGED <<params, iter, max_error, status, callMode, callArgs, expected,
                   unchecked, failures, mem_size, layer_mode, devIn, hostIn,
                   devTouched, report>>

\* Faulty variant of GE_Device: a failed invocation is tried again.
GE_Device_retry ==
    /\ pc = "ge_dev"
    /\ \E s \in DevStatuses(RealBuffers(n, inc), FALSE) :
          /\ InvokeOnBuffers(s, "success")
          /\ IF CHECK_ROCBLAS_ERROR(s)
             THEN pc' = "ge_readback"
             ELSE pc' = "ge_dev"
    /\ UNCHANGED ended
    /\ log' = Append(log, Ev("Correctness", "device_call"))
    /\ UNCHANGED <<params, iter, hostBufs, rng, max_error, unchecked,
                   failures, mem_size, layer_mode, hostIn, report>>
    /\ UNCHANGED <<clock, xfer_start, records>>

\* line 105
GE_Device ==
    /\ pc = "ge_dev"
    /\ \E s \in DevStatuses(RealBuffers(n, inc), FALSE) :
          /\ InvokeOnBuffers(s, "success")
          /\ IF CHECK_ROCBLAS_ERROR(s)
             THEN pc' = "ge_readback" /\ UNCHANGED ended
             ELSE Abort
    /\ log' = Append(log, Ev("Correctness", "device_call"))
    /\ UNCHANGED <<params, iter, hostBufs, rng, max_error, unchecked,
                   failures, mem_size, layer_mode, hostIn, report>>
    /\ UNCHANGED <<clock, xfer_start, records>>

\* Faulty variant of GE_ReadBack: the device output is copied over hx.
GE_ReadBack_into_hx ==
    /\ pc = "ge_readback"
    /\ log' = Append(log, Ev("Correctness", "read_back"))
    /\ \E ok \in BOOLEAN :
          IF ok
          THEN hx' = dx /\ pc' = "ge_host" /\ UNCHANGED ended
          ELSE UNCHANGED hx /\ Abort
    /\ UNCHANGED <<params, iter, ha, hxr, ht, devBufs, rng, max_error,
                   status, callMode, callArgs, expected, unchecked, failures,
                   mem_size, layer_mode, devIn, hostIn, devTouched, report>>
    /\ clock' = transfer_done(clock, busy_until)
    /\ xfer_start' = transfer_start(clock, busy_until)
    /\ UNCHANGED <<busy_until, records>>

\* line 106: CHECK_HIP_ERROR(hxr.transfer_from(dx))
GE_ReadBack ==
    /\ pc = "ge_readback"
    /\ log' = Append(log, Ev("Correctness", "read_back"))
    /\ \E ok \in BOOLEAN :
          IF ok
          THEN hxr' = dx /\ pc' = "ge_host" /\ UNCHANGED ended
          ELSE UNCHANGED hxr /\ Abort
    /\ UNCHANGED <<params, iter, ha, hx, ht, devBufs, rng, max_error, status,
                   callMode, callArgs, expected, unchecked, failures, mem_size,
                   layer_mode, devIn, hostIn, devTouched, report>>
    /\ clock' = transfer_done(clock, busy_until)
    /\ xfer_start' = transfer_start(clock, busy_until)
    /\ UNCHANGED <<busy_until, records>>

\* line 109: cblas_larfg<T>(n, ha[0], hx[0], inc, ht[0])
GE_HostRef ==
    /\ pc = "ge_host"
    /\ LET r == cblas_larfg(n, ha, hx, inc, ht)
       IN ha' = r.a /\ hx' = r.x /\ ht' = r.t
    /\ hostIn' = <<ha, hx>>
    /\ log' = Append(log, Ev("Correctness", "host_ref"))
    /\ pc' = "ge_norm"
    /\ UNCHANGED <<params, iter, hxr, devBufs, rng, max_error, status,
                   callMode, callArgs, expected, unchecked, failures, mem_size,
                   layer_mode, devIn, devTouched, ended, report>>
    /\ clock' = clock + HostTime
    /\ UNCHANGED <<busy_until, xfer_start, records>>

\* Faulty variant of GE_Norm: tau is compared as well.
GE_Norm_with_tau ==
    /\ pc = "ge_norm"
    /\ max_error' = Max2(norm_error(n - 1, inc, hx, hxr), Abs(ht[1] - dt[1]))
    /\ log' = Append(log, Ev("Correctness", "norm_error"))
    /\ pc' = AfterGetError
    /\ UNCHANGED <<params, iter, hostBufs, devBufs, rng, status, callMode,
                   callArgs, expected, unchecked, failures, mem_size, layer_mode,
                   devIn, hostIn, devTouched, ended, report>>
    /\ UNCHANGED timers

\* Faulty variant of GE_Norm: every cell of the buffers is compared.
GE_Norm_over_buffer ==
    /\ pc = "ge_norm"
    /\ max_error' = MaxOver([k \in DOMAIN hx |-> Abs(hx[k] - hxr[k])],
                            DOMAIN hx)
    /\ log' = Append(log, Ev("Correctness", "norm_error"))
    /\ pc' = AfterGetError
    /\ UNCHANGED <<params, iter, hostBufs, devBufs, rng, status, callMode,
                   callArgs, expected, unchecked, failures, mem_size, layer_mode,
                   devIn, hostIn, devTouched, ended, report>>
    /\ UNCHANGED timers

\* line 115: *max_err = norm_error('O', 1, n - 1, inc, hx[0], hxr[0])
GE_Norm ==
    /\ pc = "ge_norm"
    /\ max_error' = norm_error(n - 1, inc, hx, hxr)
    /\ log' = Append(log, Ev("Correctness", "norm_error"))
    /\ pc' = AfterGetError
    /\ UNCHANGED <<params, iter, hostBufs, devBufs, rng, status, callMode,
                   callArgs, expected, unchecked, failures, mem_size, layer_mode,
                   devIn, hostIn, devTouched, ended, report>>
    /\ UNCHANGED timers

\* ------------------------------------------- larfg_getPerfData, 118-179
\* Faulty variant of ColdCalls: one warm-up call only.
ColdCalls_one == 2 - 1

ColdCalls == 2

\* lines 135-137
\* Faulty variant of host_timed: in perf mode the host reference is still
\* timed when the computations were checked.
host_timed_if_checked == ~argus.perf \/ CheckRequested

\* line 135: if(!perf)
host_timed == ~argus.perf

PD_HostInit ==
    /\ pc = "pd_host"
    /\ IF host_timed
       THEN larfg_initData(TRUE, FALSE, "Performance", "pd_host_call")
       ELSE /\ pc' = "pd_regen"
            /\ UNCHANGED <<hostBufs, devBufs, rng, ended, log, timers>>
    /\ UNCHANGED <<params, iter, max_error, status, callMode, callArgs, expected,
                   unchecked, failures, mem_size, layer_mode, devIn, hostIn,
                   devTouched, report>>

\* Faulty variant of PD_HostCall: the host reference is warmed up by one
\* untimed call before the timed one.
PD_HostCall_warmed ==
    /\ pc = "pd_host_call"
    /\ LET w == cblas_larfg(n, ha, hx, inc, ht)
           r == cblas_larfg(n, w.a, w.x, inc, w.t)
       IN ha' = r.a /\ hx' = r.x /\ ht' = r.t
    /\ hostIn' = <<ha, hx>>
    /\ log' = log \o <<Ev("Performance", "host_ref"),
                       Ev("Performance", "cpu_time_start"),
                       Ev("Performance", "host_ref"),
                       Ev("Performance", "cpu_time_stop")>>
    /\ pc' = "pd_regen"
    /\ UNCHANGED <<params, iter, hxr, devBufs, rng, max_error, status,
                   callMode, callArgs, expected, unchecked, failures, mem_size,
                   layer_mode, devIn, devTouched, ended, report>>
    /\ LET t0 == get_time_us_no_sync(clock + HostTime, busy_until)
           t1 == get_time_us_no_sync(t0 + HostTime, busy_until)
       IN clock' = t1 /\ cpu_time_used' = t1 - t0
    /\ UNCHANGED <<busy_until, xfer_start, start, gpu_time_used>>

\* lines 139-142
PD_HostCall ==
    /\ pc = "pd_host_call"
    /\ LET r == cblas_larfg(n, ha, hx, inc, ht)
       IN ha' = r.a /\ hx' = r.x /\ ht' = r.t
    /\ hostIn' = <<ha, hx>>
    /\ log' = log \o <<Ev("Performance", "cpu_time_start"),
                       Ev("Performance", "host_ref"),
                       Ev("Performance", "cpu_time_stop")>>
    /\ pc' = "pd_regen"
    /\ UNCHANGED <<params, iter, hxr, devBufs, rng, max_error, status,
                   callMode, callArgs, expected, unchecked, failures, mem_size,
                   layer_mode, devIn, devTouched, ended, report>>
    /\ LET t0 == get_time_us_no_sync(clock, busy_until)
           t1 == get_time_us_no_sync(t0 + HostTime, busy_until)
       IN clock' = t1 /\ cpu_time_used' = t1 - t0
    /\ UNCHANGED <<busy_until, xfer_start, start, gpu_time_used>>

\* Faulty variant of PD_Regen: the host data is not regenerated.
PD_Regen_skipped ==
    /\ pc = "pd_regen"
    /\ pc' = "pd_cold_init"
    /\ iter' = 0
    /\ UNCHANGED <<params, hostBufs, devBufs, rng, max_error, status,
                   callMode, callArgs, expected, unchecked, failures,
                   mem_size, layer_mode, devIn, hostIn, devTouched, ended,
                   report, log>>
    /\ UNCHANGED timers

\* line 145
PD_Regen ==
    /\ pc = "pd_regen"
    /\ larfg_initData(TRUE, FALSE, "Performance", "pd_cold_init")
    /\ iter' = 0
    /\ UNCHANGED <<params, max_error, status, callMode, callArgs, expected, unchecked,
                   failures, mem_size, layer_mode, devIn, hostIn, devTouched,
                   report>>

\* line 150
PD_ColdInit ==
    /\ pc = "pd_cold_init"
    /\ iter < ColdCalls
    /\ larfg_initData(FALSE, TRUE, "Performance", "pd_cold_call")
    /\ UNCHANGED <<params, iter, max_error, status, callMode, callArgs, expected,
                   unchecked, failures, mem_size, layer_mode, devIn, hostIn,
                   devTouched, report>>

\* line 152, then the loop test of line 148
PD_ColdCall ==
    /\ pc = "pd_cold_call"
    /\ \E s \in DevStatuses(RealBuffers(n, inc), FALSE) :
          /\ InvokeOnBuffers(s, "success")
          /\ IF CHECK_ROCBLAS_ERROR(s)
             THEN /\ pc' = IF iter + 1 < ColdCalls
                           THEN "pd_cold_init" ELSE "pd_profile"
                  /\ UNCHANGED ended
             ELSE Abort
    /\ iter' = iter + 1
    /\ log' = Append(log, Ev("Performance", "device_call"))
    /\ UNCHANGED <<params, hostBufs, rng, max_error, unchecked, failures,
                   mem_size, layer_mode, hostIn, report>>
    /\ UNCHANGED <<clock, xfer_start, records>>

\* lines 155-168, then the loop test of line 170
\* Faulty variant of FirstHot: the first hot call is spent on switching
\* the profiling on.
FirstHot_profiled == IF argus.profile > 0 THEN 1 ELSE 0

\* line 170: int iter = 0
FirstHot == 0

PD_Profile ==
    /\ pc = "pd_profile"
    /\ layer_mode' = IF argus.profile > 0
                     THEN <<(IF argus.profile_kernels
                             THEN "log_profile_kernel" ELSE "log_profile"),
                            argus.profile>>
                     ELSE layer_mode
    /\ log' = log \o (IF argus.profile > 0
                      THEN <<Ev("Performance", "set_layer_mode")>> ELSE <<>>)
    /\ iter' = FirstHot
    /\ pc' = IF FirstHot < hot_calls THEN "pd_hot_init" ELSE "pd_mean"
    /\ UNCHANGED <<params, hostBufs, devBufs, rng, max_error, status,
                   callMode, callArgs, expected, unchecked, failures, mem_size, devIn,
                   hostIn, devTouched, ended, report>>
    /\ UNCHANGED timers

\* line 172
PD_HotInit ==
    /\ pc = "pd_hot_init"
    /\ iter < hot_calls
    /\ larfg_initData(FALSE, TRUE, "Performance", "pd_hot_call")
    /\ UNCHANGED <<params, iter, max_error, status, callMode, callArgs, expected,
                   unchecked, failures, mem_size, layer_mode, devIn, hostIn,
                   devTouched, report>>

\* lines 174-176 (the returned status is dropped), then the loop test
PD_HotCall ==
    /\ pc = "pd_hot_call"
    /\ \E s \in DevStatuses(RealBuffers(n, inc), FALSE) :
          /\ InvokeOnBuffers(s, "none")
          /\ unchecked' = IF s # "success" THEN unchecked \cup {s}
                          ELSE unchecked
    /\ iter' = iter + 1
    /\ log' = log \o <<Ev("Performance", "sync_time_start"),
                       Ev("Performance", "device_call"),
                       Ev("Performance", "sync_time_stop")>>
    /\ pc' = IF iter + 1 < hot_calls THEN "pd_hot_init" ELSE "pd_mean"
    /\ UNCHANGED <<params, hostBufs, rng, max_error, failures, mem_size,
                   layer_mode, hostIn, ended, report>>
    /\ LET t0 == get_time_us_sync(clock, busy_until)
           t1 == HotStop(t0, busy_until')
       IN /\ start' = t0
          /\ clock' = t1
          /\ gpu_time_used' = gpu_time_used + (t1 - t0)
    /\ UNCHANGED <<xfer_start, cpu_time_used>>

\* line 178
PD_Mean ==
    /\ pc = "pd_mean"
    /\ log' = Append(log, Ev("Performance", "mean"))
    /\ pc' = "test_check"
    /\ UNCHANGED <<params, iter, hostBufs, devBufs, rng, max_error, status,
                   callMode, callArgs, expected, unchecked, failures, mem_size,
                   layer_mode, devIn, hostIn, devTouched, ended, report>>
    /\ gpu_time_used' = IF hot_calls = 0 THEN NaN
                        ELSE gpu_time_used \div hot_calls
    /\ UNCHANGED <<clock, busy_until, xfer_start, start, cpu_time_used>>

\* ------------------------------------------- testing_larfg, 269-272
\* Faulty variant of TestCheck: the error is compared whenever the
\* computations were checked, by unit_check or by norm_check.
TestCheck_any_check ==
    /\ pc = "test_check"
    /\ IF CheckRequested
       THEN /\ failures' = IF TestCheckPasses(max_error, n) THEN failures
                           ELSE failures \cup {"tolerance"}
            /\ log' = Append(log, Ev("TestCheck", "compare"))
       ELSE UNCHANGED <<failures, log>>
    /\ pc' = "report"
    /\ UNCHANGED <<params, iter, hostBufs, devBufs, rng, max_error, status,
                   callMode, callArgs, expected, unchecked, mem_size, layer_mode,
                   devIn, hostIn, devTouched, ended, report>>
    /\ UNCHANGED timers

\* Faulty variant of TestTolerance: the tolerance does not grow with n.
TestTolerance_fixed == 2 - 1

\* line 271: the third argument of ROCSOLVER_TEST_CHECK(T, max_error, n)
TestTolerance == n

TestCheck ==
    /\ pc = "test_check"
    /\ IF argus.unit_check
       THEN /\ failures' = IF TestCheckPasses(max_error, TestTolerance)
                           THEN failures
                           ELSE failures \cup {"tolerance"}
            /\ log' = Append(log, Ev("TestCheck", "compare"))
       ELSE UNCHANGED <<failures, log>>
    /\ pc' = "report"
    /\ UNCHANGED <<params, iter, hostBufs, devBufs, rng, max_error, status,
                   callMode, callArgs, expected, unchecked, mem_size, layer_mode,
                   devIn, hostIn, devTouched, ended, report>>
    /\ UNCHANGED timers

\* ------------------------------------------- testing_larfg, 274-306
\* Faulty variant of ReportColumns: the error is reported whenever the
\* computations were checked, by unit_check or by norm_check.
ReportColumns_any_check ==
    (IF ~argus.perf THEN {"n", "inc", "cpu_time_us", "gpu_time_us"}
     ELSE {"gpu_time_us"})
    \cup (IF CheckRequested THEN {"error"} ELSE {})

ReportColumns ==
    (IF ~argus.perf THEN {"n", "inc", "cpu_time_us", "gpu_time_us"}
     ELSE {"gpu_time_us"})
    \cup (IF argus.norm_check THEN {"error"} ELSE {})

Report ==
    /\ pc = "report"
    /\ report' = IF argus.timing THEN ReportColumns ELSE report
    /\ log' = log \o (IF argus.timing
                      THEN <<Ev("Reported", "bench_output")>> ELSE <<>>)
                  \o <<Ev("Final", "validate_consumed")>>
    /\ pc' = "done" /\ ended' = "completed"
    /\ UNCHANGED <<params, iter, hostBufs, devBufs, rng, max_error, status,
                   callMode, callArgs, expected, unchecked, failures, mem_size,
                   layer_mode, devIn, hostIn, devTouched>>
    /\ UNCHANGED timers

\* ------------------------------------------- testing_larfg_bad_arg, 42-60
BA_Alloc ==
    /\ pc = "ba_alloc"
    /\ da' = NewVector(1) /\ dx' = NewVector(1) /\ dt' = NewVector(1)
    /\ log' = Append(log, Ev("ArgumentCheck", "allocate"))
    /\ \E ok \in BOOLEAN :          \* CHECK_HIP_ERROR(memcheck())
          IF ok THEN pc' = "ba_handle" /\ UNCHANGED ended ELSE Abort
    /\ UNCHANGED <<params, iter, hostBufs, rng, max_error, status, callMode,
                   callArgs, expected, unchecked, failures, mem_size,
                   layer_mode, devIn, hostIn, devTouched, report>>
    /\ UNCHANGED timers

\* ------------------------------------------- larfg_checkBadArgs, 14-40
\* one EXPECT_ROCBLAS_STATUS(rocsolver_larfg(args), e) of larfg_checkBadArgs
BadArgCall(at, args, e, op, next) ==
    /\ pc = at
    /\ \E s \in DevStatuses(args, FALSE) :
          /\ InvokeNull(args, s, "exec", e)
          /\ failures' = EXPECT_ROCBLAS_STATUS(s, e)
    /\ log' = Append(log, Ev("ArgumentCheck", op))
    /\ pc' = next
    /\ ended' = IF next = "done" THEN "completed" ELSE ended
    /\ UNCHANGED <<params, iter, hostBufs, rng, max_error, unchecked,
                   mem_size, layer_mode, hostIn, report>>
    /\ UNCHANGED <<clock, xfer_start, records>>

\* line 23
BA_NullHandle ==
    BadArgCall("ba_handle", Args(FALSE, n, TRUE, TRUE, inc, TRUE),
               "invalid_handle", "null_handle", "ba_alpha")

\* line 30
BA_NullAlpha ==
    BadArgCall("ba_alpha", Args(TRUE, n, FALSE, TRUE, inc, TRUE),
               "invalid_pointer", "null_alpha", "ba_x")

\* line 32
BA_NullX ==
    BadArgCall("ba_x", Args(TRUE, n, TRUE, FALSE, inc, TRUE),
               "invalid_pointer", "null_x", "ba_tau")

\* line 34
BA_NullTau ==
    BadArgCall("ba_tau", Args(TRUE, n, TRUE, TRUE, inc, FALSE),
               "invalid_pointer", "null_tau", "ba_quick")

\* Faulty variant of BA_QuickReturn: the null buffers are passed with the
\* size n of the other calls.
BA_QuickReturn_keeps_n ==
    BadArgCall("ba_quick", NullBuffers(n, inc),
               "success", "quick_return", "done")

\* lines 37-39: quick return with invalid pointers
BA_QuickReturn ==
    BadArgCall("ba_quick", NullBuffers(0, inc),
               "success", "quick_return", "done")

\* ------------------------------------------------------------- Next
Next ==
    \/ BA_Alloc
    \/ BA_NullHandle
    \/ BA_NullAlpha
    \/ BA_NullX
    \/ BA_NullTau
    \/ BA_QuickReturn
    \/ CheckInvalidSize
    \/ MemoryQuery
    \/ MemoryAllocations
    \/ CheckQuickReturn
    \/ GE_InitData
    \/ GE_Device
    \/ GE_ReadBack
    \/ GE_HostRef
    \/ GE_Norm
    \/ PD_HostInit
    \/ PD_HostCall
    \/ PD_Regen
    \/ PD_ColdInit
    \/ PD_ColdCall
    \/ PD_Profile
    \/ PD_HotInit
    \/ PD_HotCall
    \/ PD_Mean
    \/ TestCheck
    \/ Report

Spec == Init /\ [][Next]_vars

\* ================================================================ properties
\* operations logged in orchestrator state st, in order
OpsOf(st) ==
    LET sel == SelectSeq(log, LAMBDA e : e[1] = st)
    IN [i \in 1 .. Len(sel) |-> sel[i][2]]

IsPrefix(a, b) == Len(a) <= Len(b) /\ a = SubSeq(b, 1, Len(a))

Count(seq, x) == Cardinality({i \in DOMAIN seq : seq[i] = x})

Logged(st, op) == \E i \in DOMAIN log : log[i] = Ev(st, op)

Entered(st) == \E i \in DOMAIN log : log[i][1] = st

\* executing (not size-query) device invocations made so far
DeviceCalls == Cardinality({i \in DOMAIN log : log[i][2] = "device_call"})

Testing == entry = "testing_larfg"

Unallocated == hostBufs = << <<>>, <<>>, <<>>, <<>> >> /\ devBufs = << <<>>, <<>>, <<>> >>

\* the host data as rocblas_init leaves it in freshly allocated buffers
PristineA == rocblas_init(NewVector(1), 1, 1, Seed, TRUE)

PristineX == rocblas_init(NewVector(stx), size_x, inc, Seed, TRUE)

\* ---------------------------------------------------------------- C1
\* C1: whenever n < 0 or inc < 1, testing_larfg invokes the device routine
\* exactly once, with null buffers and expecting invalid-size, and then
\* terminates: no size query, no allocation, no data generation, no
\* correctness or performance run and no report, whatever the flags are.
C1_InvalidSizeTerminates ==
    (Testing /\ (n < 0 \/ inc < 1)) =>
        /\ pc \in {"start", "done"}
        /\ Unallocated
        /\ rng = Seed /\ mem_size = 0 /\ max_error = 0 /\ report = {}
        /\ pc = "start" => log = <<>>
        /\ pc = "done" =>
              /\ ended = "invalid_size"
              /\ callMode = "exec" /\ callArgs = NullBuffers(n, inc)
              /\ expected = "invalid_size"
              /\ log = <<Ev("SizeValidation", "check"),
                         Ev("SizeValidation", "device_call")>>
                       \o (IF argus.timing
                           THEN <<Ev("SizeValidation", "inform_invalid_size")>>
                           ELSE <<>>)

C1_Witness ==
    /\ Testing /\ inc = 0 /\ n >= 0 /\ pc = "done"
    /\ argus.timing /\ argus.unit_check /\ argus.mem_query
    /\ status = "invalid_size" /\ DeviceCalls = 1

\* ---------------------------------------------------------------- C2
StateRank(st) ==
    CASE st = "SizeValidation" -> 1
      [] st = "MemoryQuery" -> 2
      [] st = "QuickReturn" -> 3
      [] st = "Correctness" -> 4
      [] st = "Performance" -> 5
      [] st = "Reported" -> 6
      [] OTHER -> 0

\* ranks of the six orchestrator states in the order they were entered
RanksEntered ==
    LET sel == SelectSeq(log, LAMBDA e : StateRank(e[1]) > 0)
    IN [i \in 1 .. Len(sel) |-> StateRank(sel[i][1])]

\* C2: in every run of testing_larfg the states SizeValidation,
\* MemoryQuery, QuickReturn, Correctness, Performance, Reported are entered
\* in this order, a state that terminates the case early is the last one
\* entered, Correctness is entered only if unit_check or norm_check is set
\* and Performance only if timing is set.
C2_StatesInOrder ==
    Testing =>
        /\ LET r == RanksEntered
           IN \A i \in 1 .. Len(r) - 1 : r[i] <= r[i + 1]
        /\ log # <<>> => log[1][1] = "SizeValidation"
        /\ Entered("Correctness") => CheckRequested
        /\ Entered("Performance") => argus.timing
        /\ ended = "invalid_size" => log[Len(log)][1] = "SizeValidation"
        /\ ended = "mem_query" => log[Len(log)][1] = "MemoryQuery"
        /\ ended = "quick_return" => log[Len(log)][1] = "QuickReturn"

C2_Witness ==
    /\ Testing /\ ended = "completed"
    /\ Entered("MemoryQuery") /\ Entered("QuickReturn")
    /\ Entered("Correctness") /\ Entered("Performance") /\ Entered("Reported")

\* ---------------------------------------------------------------- C3
\* C3: for n = 0 with inc >= 1 and not query-only, testing_larfg makes
\* exactly one executing device invocation, expecting success, and
\* terminates: no data is generated, larfg_getError and larfg_getPerfData
\* are not called and nothing is reported, whatever unit_check, norm_check
\* and timing are.
C3_QuickReturnTerminates ==
    (Testing /\ n = 0 /\ inc >= 1 /\ ~argus.mem_query) =>
        /\ ~Entered("Correctness") /\ ~Entered("Performance")
        /\ ~Entered("TestCheck") /\ ~Entered("Reported") /\ ~Entered("Final")
        /\ rng = Seed /\ max_error = 0 /\ report = {}
        /\ pc = "done" => ended \in {"quick_return", "aborted"}
        /\ ended = "aborted" => DeviceCalls = 0
        /\ ended = "quick_return" =>
              /\ DeviceCalls = 1
              /\ callMode = "exec" /\ callArgs = RealBuffers(0, inc)
              /\ expected = "success"
              /\ log[Len(log)] \in {Ev("QuickReturn", "device_call"),
                                    Ev("QuickReturn", "inform_quick_return")}

C3_Witness ==
    /\ Testing /\ n = 0 /\ ended = "quick_return"
    /\ argus.timing /\ argus.unit_check /\ argus.norm_check
    /\ ~realloc_on_demand /\ status = "success"

\* ---------------------------------------------------------------- C4
\* C4 as stated: every executing invocation with n = 0 is expected to
\* succeed and touches no buffer, whatever the increment.
C4_AsClaimed ==
    (callMode = "exec" /\ callArgs.n = 0) =>
        (expected = "success" /\ devTouched = {})

\* C4: every executing invocation with n = 0 and inc >= 1 is expected to
\* succeed and touches no buffer, with null buffers as with capacity-1
\* placeholders; no host data has been generated or transferred for it.
C4_ZeroSizeExpectsSuccess ==
    (callMode = "exec" /\ callArgs.n = 0 /\ callArgs.inc >= 1) =>
        /\ expected = "success"
        /\ devTouched = {}
        /\ rng = Seed
        /\ \A i \in DOMAIN log :
              log[i][2] \notin {"generate", "mirror", "read_back"}

C4_Witness ==
    /\ Testing /\ callMode = "exec" /\ callArgs = RealBuffers(0, MaxInc)
    /\ expected = "success" /\ status = "success"
    /\ Len(dx) = MaxInc /\ Len(da) = 1

\* ---------------------------------------------------------------- C5
GetErrorOps ==
    <<"generate", "mirror", "device_call", "read_back", "host_ref",
      "norm_error">>

\* C5: within larfg_getError the operations occur in the order host data
\* generation, mirroring to the device, device invocation, read-back of
\* the device output, host reference invocation, discrepancy computation.
C5_GetErrorOrder ==
    LET ops == OpsOf("Correctness")
    IN /\ IsPrefix(ops, GetErrorOps)
       /\ (pc \in {"pd_host", "test_check", "report"} /\ CheckRequested)
             => ops = GetErrorOps

C5_Witness ==
    /\ pc = "test_check" /\ OpsOf("Correctness") = GetErrorOps
    /\ n >= 2 /\ hxr # hx /\ da # ha

\* ---------------------------------------------------------------- C6
\* C6: when the device routine is dispatched in larfg_getError, da and dx
\* equal the freshly generated ha and hx, and when cblas_larfg is called
\* ha and hx still hold these values: both see the same input.
C6_SameInputs ==
    /\ pc = "ge_dev" =>
          /\ da = ha /\ dx = hx
          /\ ha = PristineA /\ hx = PristineX
    /\ pc = "ge_readback" => devIn = <<ha, hx>>
    /\ pc = "ge_host" => devIn = <<ha, hx>>
    /\ pc = "ge_norm" => hostIn = devIn /\ hostIn = <<PristineA, PristineX>>

C6_Witness ==
    /\ pc = "ge_norm" /\ n >= 2 /\ inc >= 2
    /\ hostIn = devIn /\ hx # hostIn[2] /\ dx # devIn[2]

\* ---------------------------------------------------------------- C7
\* C7: the read-back in larfg_getError writes hxr only and leaves ha, hx and
\* ht as they are, and the discrepancy is taken between the host
\* reference's in-place result in hx and the device result in hxr.
C7_ReadBackFrame ==
    [][/\ pc = "ge_readback" =>
             /\ ha' = ha /\ hx' = hx /\ ht' = ht
             /\ pc' = "ge_host" => hxr' = dx
       /\ pc = "ge_norm" =>
             /\ hx = cblas_larfg(n, hostIn[1], hostIn[2], inc, ht).x
             /\ hxr = dx
             /\ max_error' = norm_error(n - 1, inc, hx, hxr)]_vars

C7_Witness ==
    /\ pc = "ge_host" /\ n >= 2 /\ hxr = dx /\ hxr # hx
    /\ hx = PristineX /\ ha = PristineA

\* ---------------------------------------------------------------- C8
RECURSIVE Repeat(_, _)
Repeat(seq, k) == IF k <= 0 THEN <<>> ELSE seq \o Repeat(seq, k - 1)

\* the operations of a complete larfg_getPerfData, with exactly 2 warm-up
\* calls and hot_calls timed calls, each after its own re-mirroring
PerfOps ==
    (IF ~argus.perf
     THEN <<"generate", "cpu_time_start", "host_ref", "cpu_time_stop">>
     ELSE <<>>)
    \o <<"generate">>
    \o Repeat(<<"mirror", "device_call">>, 2)
    \o (IF argus.profile > 0 THEN <<"set_layer_mode">> ELSE <<>>)
    \o Repeat(<<"mirror", "sync_time_start", "device_call",
                "sync_time_stop">>, hot_calls)
    \o <<"mean">>

\* C8: larfg_getPerfData invokes the device routine exactly 2 times as
\* untimed warm-up and then exactly hot_calls times as timed calls, and
\* every one of these 2 + hot_calls invocations follows its own
\* larfg_initData pass that re-mirrors the host data.
C8_PerfCalls ==
    LET ops == OpsOf("Performance")
    IN /\ IsPrefix(ops, PerfOps)
       /\ pc \in {"test_check", "report"} /\ argus.timing =>
             /\ ops = PerfOps
             /\ Count(ops, "device_call") = 2 + hot_calls
             /\ Count(ops, "mirror") = 2 + hot_calls

C8_Witness ==
    /\ Logged("Performance", "mean") /\ hot_calls = MaxHot
    /\ Count(OpsOf("Performance"), "device_call") = 2 + MaxHot
    /\ Count(OpsOf("Performance"), "mirror") = 2 + MaxHot

\* ---------------------------------------------------------------- C9
\* C9: every device invocation of larfg_getPerfData (warm-up or hot) is
\* dispatched with da and dx equal to the pristine generated host data:
\* ha and hx are regenerated before the loops, stay as generated through
\* the loops, and are re-mirrored before every call.
C9_PerfKnownGoodInput ==
    /\ pc \in {"pd_cold_call", "pd_hot_call"} =>
          /\ da = PristineA /\ dx = PristineX
    /\ pc \in {"pd_cold_init", "pd_cold_call", "pd_profile", "pd_hot_init",
               "pd_hot_call", "pd_mean"} =>
          /\ ha = PristineA /\ hx = PristineX
    /\ (pc \in {"pd_profile", "pd_hot_init", "pd_mean"}
        \/ (pc = "pd_cold_init" /\ iter > 0)) =>
          devIn = <<PristineA, PristineX>>

C9_Witness ==
    /\ pc = "pd_hot_call" /\ iter = 1 /\ n >= 2
    /\ hostIn # <<>> /\ ~argus.perf /\ CheckRequested
    /\ da = PristineA /\ dx = PristineX /\ dt # NewVector(1)

\* ---------------------------------------------------------------- C10
\* C10 as stated: a non-success status of any executing device invocation
\* for a validly-shaped, non-empty problem aborts the test case at once.
C10_AsClaimed ==
    (Testing /\ n >= 1 /\ inc >= 1 /\ callMode = "exec"
     /\ status # "success") => ended = "aborted"

\* ---------------------------------------------------------------- C11
\* index of the first occurrence of event e in the log (0: not logged)
FirstAt(e) ==
    LET S == {i \in DOMAIN log : log[i] = e}
    IN IF S = {} THEN 0 ELSE CHOOSE i \in S : \A j \in S : i <= j

\* index at which orchestrator state st is first entered (0: never)
EnteredAt(st) ==
    LET S == {i \in DOMAIN log : log[i][1] = st}
    IN IF S = {} THEN 0 ELSE CHOOSE i \in S : \A j \in S : i <= j

\* C11 as stated: whenever the tolerance comparison and the performance
\* measurement are both requested, ROCSOLVER_TEST_CHECK has been performed
\* by the time the Performance state (larfg_getPerfData) is entered.
C11_AsClaimed ==
    (Testing /\ argus.unit_check /\ argus.timing /\ Entered("Performance"))
        => LET c == FirstAt(Ev("TestCheck", "compare"))
           IN c > 0 /\ c < EnteredAt("Performance")

\* C11: the comparison of the Error Record against the tolerance is a step
\* of its own that follows both measuring functions: it is performed once,
\* exactly when unit_check is set, after larfg_getError has recorded the
\* error and, when timing is requested, after larfg_getPerfData has
\* computed the mean, and before anything is reported.
C11_CompareAfterPerf ==
    Testing =>
        LET c == FirstAt(Ev("TestCheck", "compare"))
            e == FirstAt(Ev("Correctness", "norm_error"))
            m == FirstAt(Ev("Performance", "mean"))
            r == EnteredAt("Reported")
        IN /\ c > 0 =>
                /\ argus.unit_check
                /\ Count(log, Ev("TestCheck", "compare")) = 1
                /\ e > 0 /\ e < c
                /\ argus.timing => (m > 0 /\ m < c)
                /\ r = 0 \/ c < r
           /\ (argus.unit_check /\ ended = "completed") => c > 0

\* the comparison fails after the performance data has been collected
C11_Witness ==
    /\ Testing /\ argus.unit_check /\ argus.timing
    /\ ended = "completed"
    /\ "tolerance" \in failures
    /\ FirstAt(Ev("Performance", "mean")) < FirstAt(Ev("TestCheck", "compare"))

\* ---------------------------------------------------------------- C12
\* C12 as stated: whenever the computations were checked (unit_check or
\* norm_check), the recorded error is compared against the tolerance n * eps
\* and an error above it is a reported failure.
C12_AsClaimed ==
    (Testing /\ (argus.unit_check \/ argus.norm_check) /\ ended = "completed")
        => /\ Logged("TestCheck", "compare")
           /\ max_error > n * Eps => "tolerance" \in failures

\* C12: the Error Record is recorded whenever unit_check or norm_check is
\* set, but it is compared against the tolerance n * eps only when
\* unit_check is set: then an error above the tolerance is a reported
\* failure that does not stop the case; under norm_check alone the error is
\* never compared and never a failure.
C12_CompareUnderUnitCheck ==
    (Testing /\ ended = "completed") =>
        /\ Logged("TestCheck", "compare") <=> argus.unit_check
        /\ "tolerance" \in failures
              <=> (argus.unit_check /\ max_error > n * Eps)
        /\ (argus.unit_check \/ argus.norm_check)
              => Logged("Correctness", "norm_error")

\* an error above the tolerance that norm_check alone lets pass
C12_Witness ==
    /\ Testing /\ ended = "completed"
    /\ argus.norm_check /\ ~argus.unit_check
    /\ max_error > n * Eps
    /\ "tolerance" \notin failures

\* ---------------------------------------------------------------- C13
\* C13: when the memory size is queried (mem_query set, or no reallocation
\* on demand), the device routine is called in size-query mode between the
\* start and the stop of the query, with null buffers and touching no
\* buffer; under mem_query the size is reported and the case ends there,
\* before any allocation, quick-return check, correctness or performance
\* step, for n = 0 too; otherwise the queried size is committed to the
\* handle before the buffers are allocated and before any executing device
\* invocation.
C13_MemoryQuery ==
    Testing =>
        LET q == OpsOf("MemoryQuery")
            last == IF argus.mem_query THEN "inform_mem_query"
                    ELSE "set_memory_size"
        IN /\ IsPrefix(q, <<"start_query", "device_query", "stop_query", last>>)
           /\ q # <<>> => (argus.mem_query \/ ~realloc_on_demand)
           /\ callMode = "query" =>
                /\ callArgs = Args(TRUE, n, FALSE, FALSE, inc, FALSE)
                /\ devTouched = {}
                /\ Len(q) >= 2
                /\ ~Entered("Setup") => Unallocated
           /\ argus.mem_query =>
                /\ \A i \in DOMAIN log :
                      log[i][1] \in {"SizeValidation", "MemoryQuery"}
                /\ Unallocated /\ mem_size = 0
                /\ pc = "done" => ended \in {"invalid_size", "mem_query", "aborted"}
           /\ ended = "mem_query" =>
                /\ argus.mem_query
                /\ log = <<Ev("SizeValidation", "check"),
                           Ev("MemoryQuery", "start_query"),
                           Ev("MemoryQuery", "device_query"),
                           Ev("MemoryQuery", "stop_query"),
                           Ev("MemoryQuery", "inform_mem_query")>>
           /\ (~argus.mem_query /\ ~realloc_on_demand /\ Entered("Setup")) =>
                /\ mem_size = WorkSize(n)
                /\ SubSeq(log, 1, 6)
                     = <<Ev("SizeValidation", "check"),
                         Ev("MemoryQuery", "start_query"),
                         Ev("MemoryQuery", "device_query"),
                         Ev("MemoryQuery", "stop_query"),
                         Ev("MemoryQuery", "set_memory_size"),
                         Ev("Setup", "allocate")>>
           /\ (~argus.mem_query /\ realloc_on_demand) =>
                q = <<>> /\ mem_size = 0

\* a query-only case of an empty problem has reported the size and ended
C13_Witness ==
    /\ Testing /\ argus.mem_query /\ n = 0
    /\ ended = "mem_query"
    /\ callMode = "query"
    /\ Logged("MemoryQuery", "inform_mem_query")

\* ---------------------------------------------------------------- C14
\* C14 as stated: the host reference is timed in the same pattern as the
\* device routine: the warm-up calls, then hot_calls timed calls whose mean
\* is reported.
C14_AsClaimed ==
    (Testing /\ ~argus.perf /\ Logged("Performance", "mean")) =>
        LET ops == OpsOf("Performance")
        IN /\ Count(ops, "host_ref") = 2 + hot_calls
           /\ Count(ops, "cpu_time_start") = hot_calls

\* C14: when the host reference is timed (perf mode off), it is run exactly
\* once, on host data generated just before, with no warm-up call, no
\* repetition and no mean: the host time recorded is the unsynchronized
\* wall-clock duration of that single call, whatever hot_calls is; the host
\* data is generated anew afterwards.
C14_HostTimedOnce ==
    (Testing /\ ~argus.perf /\ Logged("Performance", "mean")) =>
        LET ops == OpsOf("Performance")
        IN /\ SubSeq(ops, 1, 5) = <<"generate", "cpu_time_start", "host_ref",
                                    "cpu_time_stop", "generate">>
           /\ Count(ops, "host_ref") = 1
           /\ Count(ops, "cpu_time_start") = 1
           /\ Count(ops, "cpu_time_stop") = 1
           /\ cpu_time_used = HostTime

\* the host reference was timed once although two hot calls were asked for
C14_Witness ==
    /\ Testing /\ ~argus.perf /\ hot_calls = 2
    /\ pc = "test_check"
    /\ Logged("Performance", "mean")
    /\ Count(OpsOf("Performance"), "host_ref") = 1
    /\ Count(OpsOf("Performance"), "device_call") = 4
    /\ cpu_time_used = HostTime

\* ---------------------------------------------------------------- C15
\* C15: each timed interval of the hot loop holds exactly one device
\* invocation and no Data Initializer work: the start time is read after
\* the re-mirroring of that call (and after a synchronisation), the stop
\* time after a synchronisation that follows the dispatch, so every
\* interval is the duration of one device execution; the device time
\* reported is the sum of the hot_calls intervals divided by hot_calls.
C15_HotIntervals ==
    Testing =>
        LET ops == OpsOf("Performance")
        IN /\ \A i \in DOMAIN ops :
                ops[i] = "sync_time_start" =>
                    /\ i > 1 /\ ops[i - 1] = "mirror"
                    /\ i + 2 <= Len(ops)
                    /\ ops[i + 1] = "device_call"
                    /\ ops[i + 2] = "sync_time_stop"
           /\ Count(ops, "sync_time_start") = Count(ops, "sync_time_stop")
           /\ pc \in {"pd_hot_init", "pd_hot_call", "pd_mean"} =>
                /\ Count(ops, "sync_time_stop") = iter
                /\ gpu_time_used = iter * DevTime
           /\ (pc \in {"pd_hot_init", "pd_mean"} /\ iter > 0) =>
                /\ clock - start = DevTime
                /\ clock = busy_until
           /\ (Logged("Performance", "mean") /\ hot_calls > 0) =>
                /\ Count(ops, "sync_time_stop") = hot_calls
                /\ gpu_time_used = (hot_calls * DevTime) \div hot_calls

\* the mean of two timed device calls has been computed
C15_Witness ==
    /\ Testing /\ hot_calls = 2
    /\ Logged("Performance", "mean")
    /\ Count(OpsOf("Performance"), "sync_time_stop") = 2
    /\ gpu_time_used = DevTime
    /\ clock - start = DevTime

\* ---------------------------------------------------------------- C16
\* the step about to be taken is a call of larfg_initData<CPU, GPU>
\* (lines 101, 137, 145, 150 and 172)
InitDataCall(CPU, GPU) ==
    \/ CPU /\ GPU /\ pc = "ge_init"
    \/ CPU /\ ~GPU /\ ((pc = "pd_host" /\ ~argus.perf) \/ pc = "pd_regen")
    \/ ~CPU /\ GPU /\ pc \in {"pd_cold_init", "pd_hot_init"}

\* C16: a call of larfg_initData<CPU, GPU> changes no host buffer when CPU
\* is false and no device buffer when GPU is false; when GPU is true and the
\* call returns, da equals ha and dx equals hx; in every instantiation ht,
\* dt and hxr keep their contents and neither the device routine nor the
\* host reference has been executed.
C16_InitDataFrame ==
    [][\A CPU, GPU \in BOOLEAN :
          InitDataCall(CPU, GPU) =>
              /\ ~CPU => (ha' = ha /\ hx' = hx /\ rng' = rng)
              /\ ~GPU => (da' = da /\ dx' = dx)
              /\ (GPU /\ ended' # "aborted") => (da' = ha' /\ dx' = hx')
              /\ ht' = ht /\ dt' = dt /\ hxr' = hxr
              /\ UNCHANGED <<status, callMode, callArgs, devIn, hostIn,
                             devTouched, busy_until, max_error>>
              /\ \A i \in (Len(log) + 1) .. Len(log') :
                    log'[i][2] \in {"generate", "mirror"}]_vars

\* a re-mirroring inside the hot loop has restored the device inputs from
\* untouched host data while the device tau and the read-back stay
C16_Witness ==
    /\ Testing /\ n = 2
    /\ pc = "pd_hot_call" /\ iter = 1
    /\ da = ha /\ dx = hx
    /\ devIn = <<ha, hx>>
    /\ dt # NewVector(1)
    /\ hxr # NewVector(stxr)

\* ---------------------------------------------------------------- C17
\* C17: generation is repeatable: every call of larfg_initData that
\* generates (lines 101, 137 and 145) leaves the same contents in ha and
\* hx, although the host reference overwrites both in between, so the data
\* regenerated in larfg_getPerfData is the data larfg_getError worked on.
C17_Regenerated ==
    Testing =>
        /\ (pc = "pd_host_call" /\ devIn # <<>>) => <<ha, hx>> = devIn
        /\ (pc = "pd_cold_init" /\ iter = 0 /\ hostIn # <<>>) =>
              <<ha, hx>> = hostIn
        /\ (pc = "pd_cold_init" /\ iter = 0 /\ devIn # <<>>) =>
              <<ha, hx>> = devIn

\* the third generation reproduced the inputs of both earlier executions,
\* after two host reference calls that changed x and set tau
C17_Witness ==
    /\ Testing /\ n = 2 /\ ~argus.perf
    /\ pc = "pd_cold_init" /\ iter = 0
    /\ hostIn = <<ha, hx>> /\ devIn = <<ha, hx>>
    /\ ht # NewVector(1)
    /\ Count(log, Ev("Correctness", "host_ref")) = 1
    /\ Count(log, Ev("Performance", "host_ref")) = 1

\* ---------------------------------------------------------------- C18
\* C18: testing_larfg_bad_arg works on n = 2, inc = 1 and three allocated
\* device buffers of one element; each of its first four calls has exactly
\* one invalid argument: a null handle, expected to give invalid_handle,
\* then a null alpha, a null x and a null tau, each expected to give
\* invalid_pointer; the last call passes n = 0, inc = 1 and three null
\* buffers and is expected to give success.
C18_ArgumentCheck ==
    entry = "testing_larfg_bad_arg" =>
        LET made == [handle |-> TRUE, n |-> 2, a |-> TRUE, x |-> TRUE,
                     inc |-> 1, t |-> TRUE]
            nulls == {f \in {"handle", "a", "x", "t"} : ~callArgs[f]}
        IN /\ n = 2 /\ inc = 1
           /\ pc # "ba_alloc" => (Len(da) = 1 /\ Len(dx) = 1 /\ Len(dt) = 1)
           /\ pc \in {"ba_alloc", "ba_handle"} => callMode = "none"
           /\ pc = "ba_alpha" =>
                /\ callArgs = [made EXCEPT !.handle = FALSE]
                /\ expected = "invalid_handle"
           /\ pc = "ba_x" =>
                /\ callArgs = [made EXCEPT !.a = FALSE]
                /\ expected = "invalid_pointer"
           /\ pc = "ba_tau" =>
                /\ callArgs = [made EXCEPT !.x = FALSE]
                /\ expected = "invalid_pointer"
           /\ pc = "ba_quick" =>
                /\ callArgs = [made EXCEPT !.t = FALSE]
                /\ expected = "invalid_pointer"
           /\ pc \in {"ba_alpha", "ba_x", "ba_tau", "ba_quick"} =>
                Cardinality(nulls) = 1
           /\ ended = "completed" =>
                /\ callArgs = [handle |-> TRUE, n |-> 0, a |-> FALSE,
                               x |-> FALSE, inc |-> 1, t |-> FALSE]
                /\ expected = "success"
                /\ OpsOf("ArgumentCheck")
                     = <<"allocate", "null_handle", "null_alpha", "null_x",
                         "null_tau", "quick_return">>
           /\ callMode # "none" =>
                /\ callMode = "exec" /\ devTouched = {}
                /\ status # expected => "status_mismatch" \in failures

\* all five calls were made and each gave the status expected of it
C18_Witness ==
    /\ entry = "testing_larfg_bad_arg"
    /\ ended = "completed"
    /\ status = "success" /\ expected = "success"
    /\ callArgs.n = 0
    /\ failures = {}

\* ---------------------------------------------------------------- C19
\* C19 as stated: the record reported with the timings holds the error
\* value exactly when the computations were checked in the same case, by
\* unit_check or by norm_check.
C19_AsClaimed ==
    (Testing /\ Logged("Reported", "bench_output")) =>
        ("error" \in report <=> (argus.unit_check \/ argus.norm_check))

\* C19: the record reported with the timings holds the error value exactly
\* when norm_check is set; an error recorded under unit_check alone is
\* compared against the tolerance but not reported, and without any check
\* no error value is reported.
C19_ErrorUnderNormCheck ==
    (Testing /\ Logged("Reported", "bench_output")) =>
        /\ argus.timing
        /\ "gpu_time_us" \in report
        /\ "error" \in report <=> argus.norm_check
        /\ "error" \in report => Logged("Correctness", "norm_error")

\* timings reported without the error that unit_check had recorded
C19_Witness ==
    /\ Testing /\ ended = "completed"
    /\ argus.unit_check /\ ~argus.norm_check
    /\ Logged("Correctness", "norm_error")
    /\ Logged("Reported", "bench_output")
    /\ "gpu_time_us" \in report /\ "error" \notin report

\* ---------------------------------------------------------------- C20
\* C20 as stated: once the Performance state is over, the device time and
\* the host time are each a non-negative duration or the initial 'not
\* measured' value 0, for every hot_calls including 0, and in perf mode the
\* host time is still 0.
C20_AsClaimed ==
    (Testing /\ Logged("Performance", "mean")) =>
        /\ gpu_time_used # NaN /\ gpu_time_used >= 0
        /\ cpu_time_used # NaN /\ cpu_time_used >= 0
        /\ argus.perf => cpu_time_used = 0

\* ---------------------------------------------------------------- C21
\* C21: the unit check accepts an error up to n times the machine epsilon:
\* an error accepted for a problem size m is accepted for every size
\* n >= m, and an error rejected for size n is rejected for every smaller
\* size m >= 1.
C21_ToleranceMonotone ==
    (Testing /\ Logged("TestCheck", "compare")) =>
        /\ "tolerance" \in failures <=> max_error > n * Eps
        /\ \A m \in 1 .. n :
              /\ max_error <= m * Eps => "tolerance" \notin failures
              /\ m * Eps <= n * Eps
        /\ \A m \in n .. MaxN + 1 :
              "tolerance" \notin failures => max_error <= m * Eps

\* an error equal to the tolerance of size 2, above that of size 1, passed
C21_Witness ==
    /\ Testing /\ n = 2
    /\ Logged("TestCheck", "compare")
    /\ max_error = 2 * Eps
    /\ max_error > 1 * Eps
    /\ "tolerance" \notin failures

\* ---------------------------------------------------------------- C22
\* C22: larfg_getPerfData runs and times the host reference exactly once,
\* right after a generation of the host data, when perf is false, and not
\* at all when perf is true, whether or not the computations were checked;
\* the report of a perf run has neither the host time nor the arguments
\* n and inc.
C22_HostOnlyWithoutPerf ==
    Testing =>
        LET ops == OpsOf("Performance")
            h == Count(ops, "host_ref")
        IN /\ argus.perf =>
                /\ h = 0
                /\ Count(ops, "cpu_time_start") = 0
                /\ cpu_time_used = 0
           /\ h <= 1
           /\ \A i \in DOMAIN ops :
                ops[i] = "host_ref" =>
                    /\ i = 3
                    /\ ops[1] = "generate" /\ ops[2] = "cpu_time_start"
                    /\ Len(ops) >= 4 /\ ops[4] = "cpu_time_stop"
           /\ (~argus.perf /\ Logged("Performance", "mean")) => h = 1
           /\ Logged("Reported", "bench_output") =>
                /\ "cpu_time_us" \in report <=> ~argus.perf
                /\ "n" \in report <=> ~argus.perf
                /\ "inc" \in report <=> ~argus.perf
                /\ "gpu_time_us" \in report

\* a perf run that checked the computations reported without a host time
C22_Witness ==
    /\ Testing /\ argus.perf /\ argus.norm_check
    /\ ended = "completed"
    /\ Logged("Correctness", "host_ref")
    /\ Logged("Performance", "mean")
    /\ Count(OpsOf("Performance"), "host_ref") = 0
    /\ report = {"gpu_time_us", "error"}

C24_NoEmptyBufferUsed ==
    (Testing /\ Entered("Setup")) =>
        LET cap == IF n - 1 > 1 THEN n - 1 ELSE 1
        IN /\ size_x = cap /\ cap >= 1
           /\ Len(hx) = cap * inc /\ Len(dx) = cap * inc
           /\ Len(hx) >= 1
           /\ Len(ha) = 1 /\ Len(da) = 1 /\ Len(ht) = 1 /\ Len(dt) = 1
           /\ hxr = <<>> <=> ~(argus.unit_check \/ argus.norm_check)
           /\ pc \in {"ge_init", "ge_dev", "ge_readback", "ge_host", "ge_norm"} =>
                /\ argus.unit_check \/ argus.norm_check
                /\ Len(hxr) = Len(dx)
                /\ Cells(n - 1, inc) \subseteq DOMAIN hxr
           /\ ~Entered("Correctness") =>
                hxr = [k \in 1 .. Len(hxr) |-> 0]
           /\ Cells(cap, inc) \subseteq DOMAIN hx

\* the placeholder of a one-element problem was generated, transferred,
\* read back and is about to be compared over zero elements
C24_Witness ==
    /\ Testing /\ n = 1
    /\ pc = "ge_norm"
    /\ Len(hx) = inc /\ Len(hxr) = inc
    /\ Cells(n - 1, inc) = {}

\* ---------------------------------------------------------------- C25
\* C25: the profile settings decide the logging configuration and nothing
\* else: the configuration is switched once, after the two warm-up calls
\* and before the first hot call, exactly when profile > 0; without that
\* one event, the operations of larfg_getPerfData and the contents of all
\* host and device buffers at its end are given by n, inc, hot_calls, perf
\* and the statuses returned, whatever profile and profile_kernels are.
C25_ProfileOnlyLogging ==
    Testing =>
        LET ops   == OpsOf("Performance")
            plain == SelectSeq(ops, LAMBDA o : o # "set_layer_mode")
            k     == CHOOSE i \in DOMAIN ops : ops[i] = "set_layer_mode"
            r     == DeviceResult(n, PristineA, PristineX, inc, dt)
            ran   == hot_calls = 0 \/ status = "success"
        IN /\ layer_mode # <<"none", 0>> <=> Logged("Performance", "set_layer_mode")
           /\ Logged("Performance", "set_layer_mode") =>
                /\ argus.profile > 0
                /\ layer_mode = <<(IF argus.profile_kernels
                                   THEN "log_profile_kernel"
                                   ELSE "log_profile"), argus.profile>>
                /\ Count(ops, "set_layer_mode") = 1
                /\ Count(SubSeq(ops, 1, k), "device_call") = 2
                /\ Count(SubSeq(ops, 1, k), "sync_time_start") = 0
           /\ (argus.profile > 0 /\ Logged("Performance", "sync_time_start"))
                => Logged("Performance", "set_layer_mode")
           /\ Logged("Performance", "mean") =>
                /\ plain = (IF ~argus.perf
                            THEN <<"generate", "cpu_time_start", "host_ref",
                                   "cpu_time_stop">>
                            ELSE <<>>)
                           \o <<"generate">>
                           \o Repeat(<<"mirror", "device_call">>, 2)
                           \o Repeat(<<"mirror", "sync_time_start",
                                       "device_call", "sync_time_stop">>,
                                     hot_calls)
                           \o <<"mean">>
                /\ ha = PristineA /\ hx = PristineX
                /\ da = IF ran THEN r.a ELSE PristineA
                /\ dx = IF ran THEN r.x ELSE PristineX
                /\ dt = r.t
                /\ gpu_time_used = IF hot_calls = 0 THEN NaN ELSE DevTime

\* a run with kernel profiling on has finished its two hot calls
C25_Witness ==
    /\ Testing /\ n = 2 /\ hot_calls = 2
    /\ argus.profile > 0 /\ argus.profile_kernels
    /\ Logged("Performance", "mean")
    /\ layer_mode = <<"log_profile_kernel", argus.profile>>
    /\ Count(OpsOf("Performance"), "sync_time_stop") = 2
    /\ status = "success"

\* ---------------------------------------------------------------- C26
\* C26: the Error Record is the largest absolute difference between hx and
\* hxr over the n - 1 elements of x at stride inc; alpha and tau of the
\* device are neither read back nor compared, so a device result that
\* matches the host reference in those elements gives the Error Record 0
\* even when its alpha, its tau and the cells between the elements differ.
C26_ErrorOverXOnly ==
    (Testing /\ Logged("Correctness", "norm_error")) =>
        /\ kernel \in {"exact", "side"} => max_error = 0
        /\ ~Entered("Performance") =>
              /\ max_error = MaxOver([k \in Cells(n - 1, inc) |->
                                        Abs(hx[k] - hxr[k])],
                                     Cells(n - 1, inc))
              /\ kernel = "side" => (da # ha /\ dt # ht)
              /\ kernel = "exact" => (da = ha /\ dt = ht)

\* a device result wrong in alpha and tau passed the unit check
C26_Witness ==
    /\ Testing /\ n = 2 /\ kernel = "side"
    /\ argus.unit_check /\ ~argus.timing
    /\ ended = "completed"
    /\ da # ha /\ dt # ht
    /\ max_error = 0
    /\ failures = {}

\* ---------------------------------------------------------------- C27
\* C27: for every valid problem with n >= 1 the Error Record is a number
\* that is not negative; for n = 1 no element of x is compared, so the
\* Error Record is 0 and the unit check passes whatever the device wrote
\* into its buffers.
C27_ErrorNonNegative ==
    (Testing /\ Logged("Correctness", "norm_error")) =>
        /\ n >= 1 /\ inc >= 1
        /\ max_error # NaN /\ max_error >= 0
        /\ n = 1 =>
              /\ max_error = 0
              /\ "tolerance" \notin failures

\* the device changed the placeholder of a one-element problem and the
\* unit check passed with the Error Record 0
C27_Witness ==
    /\ Testing /\ n = 1 /\ kernel = "side"
    /\ argus.unit_check
    /\ ended = "completed"
    /\ Logged("TestCheck", "compare")
    /\ hxr # PristineX
    /\ max_error = 0
    /\ "tolerance" \notin failures

\* ---------------------------------------------------------------- C28
\* host reference invocations made so far
HostCalls == Cardinality({i \in DOMAIN log : log[i][2] = "host_ref"})

C29_EarlyInform ==
    Testing =>
        LET informs == {i \in DOMAIN log :
                          log[i][2] \in {"inform_invalid_size",
                                         "inform_quick_return",
                                         "inform_mem_query"}}
        IN /\ Cardinality(informs) <= 1
           /\ ended = "invalid_size" =>
                /\ Logged("SizeValidation", "inform_invalid_size")
                      <=> argus.timing
                /\ argus.timing =>
                      log[Len(log)] = Ev("SizeValidation", "inform_invalid_size")
           /\ ended = "quick_return" =>
                /\ Logged("QuickReturn", "inform_quick_return")
                      <=> argus.timing
                /\ argus.timing =>
                      log[Len(log)] = Ev("QuickReturn", "inform_quick_return")
           /\ ended = "mem_query" =>
                log[Len(log)] = Ev("MemoryQuery", "inform_mem_query")
           /\ ended \in {"invalid_size", "quick_return", "mem_query"} =>
                /\ ~Entered("Final") /\ ~Entered("Reported")
                /\ report = {}
                /\ pc = "done"
           /\ ended \in {"completed", "aborted", "running"} =>
                informs = {}
           /\ Entered("Final") <=> ended = "completed"

\* a query-only case without timing has informed the sink of the size
C29_Witness ==
    /\ Testing /\ argus.mem_query /\ ~argus.timing
    /\ ended = "mem_query"
    /\ Logged("MemoryQuery", "inform_mem_query")
    /\ ~Entered("Final")

====
